---- MODULE Spec2Model ----
(***************************************************************************)
(* troverai: the RaiPlay authentication helper (SperimenteRAI/             *)
(* raiplay_auth.py), the HTTP layer of the schedule CLI (troverai/api.py,  *)
(* troverai/cli.py) and the JSON repair tool (SperimenteRAI/jsonfix.py).   *)
(*                                                                         *)
(* Encoding of Python values.  A str is the sequence of its dot-separated  *)
(* segments (what str.split(".") returns), so every str has at least one   *)
(* segment and the empty sequence is free to stand for None.  A dict with  *)
(* optional keys carries the set of its keys.  Times are Unix seconds: the *)
(* naive local datetimes of the code (datetime.now(), fromtimestamp(),     *)
(* fromisoformat()) are taken in a zone whose UTC offset stays the same    *)
(* over the run, where they compare and subtract as Unix seconds do.       *)
(***************************************************************************)
EXTENDS Integers, Sequences, FiniteSets, TLC

VARIABLES now, disk, ops, last, jwt, fixer

vars == <<now, disk, ops, last, jwt, fixer>>

(***************************************************************************)
(* Bounds of the model.                                                    *)
(***************************************************************************)
\* the clock value the helper is first run at
T0 == 1790000699
\* how many times the clock is advanced
MaxTicks == 1
\* how many commands are run
MaxOps == 1

(***************************************************************************)
(* Program constants.                                                      *)
(***************************************************************************)
\* timedelta(days=1), in seconds
CONFIG_CACHE_DURATION == 86400
\* timedelta(minutes=5), in seconds
TOKEN_REFRESH_BUFFER == 300

\* Python None where a str is expected
None == <<>>
\* the str ""
EmptyStr == <<"">>

Falsy(s) == s = None \/ s = EmptyStr

(***************************************************************************)
(* JWT segments.  Each segment is the real base64url text of the bytes     *)
(* named beside it; SegLen is len(segment) and SegBytes what               *)
(* base64.urlsafe_b64decode gives for the segment once padded.             *)
(***************************************************************************)
HdrHS256 == "eyJhbGciOiJIUzI1NiJ9"
HdrOther == "xx"

PayExpSoon == "eyJleHAiOjE3OTAwMDEwMDB9"
PayExpLater == "eyJleHAiOjE3OTAwOTAwMDB9"
PayExpBelow == "eyJleHAiOi05OTk5OTk5OTk5OX0"
PayExpAbove == "eyJleHAiOjE3OTAwMDEwMDAwMDB9"
PayExpStr == "eyJleHAiOiJ4In0"
PayExpNull == "eyJleHAiOm51bGx9"
PayEmptyObj == "e30"
PayArray == "WzFd"
PayNumber == "Nw"
PayString == "InMi"
PayNull == "bnVsbA"
PayBadJson == "ew"
PayBadLen == "e"
PayNonAlpha == "!!"

PayloadSegs ==
    {PayExpSoon, PayExpLater, PayExpBelow, PayExpAbove, PayExpStr, PayExpNull,
     PayEmptyObj, PayArray, PayNumber, PayString, PayNull, PayBadJson, PayBadLen,
     PayNonAlpha}

SegLen(seg) ==
    CASE seg = PayExpSoon -> 24
      [] seg = PayExpLater -> 24
      [] seg = PayExpBelow -> 27
      [] seg = PayExpAbove -> 28
      [] seg = PayExpStr -> 15
      [] seg = PayExpNull -> 16
      [] seg = PayEmptyObj -> 3
      [] seg = PayArray -> 4
      [] seg = PayNumber -> 2
      [] seg = PayString -> 4
      [] seg = PayNull -> 6
      [] seg = PayBadJson -> 2
      [] seg = PayBadLen -> 1
      [] seg = PayNonAlpha -> 2
      [] seg = HdrHS256 -> 20
      [] seg = HdrOther -> 2
      [] OTHER -> 4

\* the bytes a correctly padded segment decodes to
SegBytes(seg) ==
    CASE seg = PayExpSoon -> "{\"exp\":1790001000}"
      [] seg = PayExpLater -> "{\"exp\":1790090000}"
      [] seg = PayExpBelow -> "{\"exp\":-99999999999}"
      [] seg = PayExpAbove -> "{\"exp\":1790001000000}"
      [] seg = PayExpStr -> "{\"exp\":\"x\"}"
      [] seg = PayExpNull -> "{\"exp\":null}"
      [] seg = PayEmptyObj -> "{}"
      [] seg = PayArray -> "[1]"
      [] seg = PayNumber -> "7"
      [] seg = PayString -> "\"s\""
      [] seg = PayNull -> "null"
      [] seg = PayBadJson -> "{"
      [] seg = PayNonAlpha -> ""
      [] seg = HdrHS256 -> "{\"alg\":\"HS256\"}"
      [] OTHER -> "?"

\* str.startswith("eyJ")
StartsWithEyJ(seg) ==
    seg \in {HdrHS256, PayExpSoon, PayExpLater, PayExpBelow, PayExpAbove, PayExpStr,
             PayExpNull}

(***************************************************************************)
(* JSON values as json.loads returns them.  t is the Python type; for a    *)
(* dict, exp_t says what d.get("exp") is: "absent", "null", "str", "num"   *)
(* (a number, held in exp), or a number that lies before year 1 ("below")  *)
(* or after year 9999 ("above") when read as a Unix timestamp.             *)
(***************************************************************************)
\* the "exp" claims of the two well-formed payloads
ExpSoon == 1790001000
ExpLater == 1790090000

JNone == [t |-> "None", exp_t |-> "absent", exp |-> 0]
JErr == [t |-> "JSONDecodeError", exp_t |-> "absent", exp |-> 0]
JDict(et, e) == [t |-> "dict", exp_t |-> et, exp |-> e]
JOther(ty) == [t |-> ty, exp_t |-> "absent", exp |-> 0]

json_loads(bytes) ==
    CASE bytes = "{\"exp\":1790001000}" -> JDict("num", ExpSoon)
      [] bytes = "{\"exp\":1790090000}" -> JDict("num", ExpLater)
      [] bytes = "{\"exp\":-99999999999}" -> JDict("below", 0)
      [] bytes = "{\"exp\":1790001000000}" -> JDict("above", 0)
      [] bytes = "{\"exp\":\"x\"}" -> JDict("str", 0)
      [] bytes = "{\"exp\":null}" -> JDict("null", 0)
      [] bytes = "{}" -> JDict("absent", 0)
      [] bytes = "{\"alg\":\"HS256\"}" -> JDict("absent", 0)
      [] bytes = "[1]" -> JOther("list")
      [] bytes = "7" -> JOther("int")
      [] bytes = "\"s\"" -> JOther("str")
      [] bytes = "null" -> JNone
      [] OTHER -> JErr

\* the call raised AttributeError instead of returning
JRaised == JOther("AttributeError")

\* base64.urlsafe_b64decode of the segment followed by pad "=" characters:
\* the bytes, or binascii.Error (a ValueError) when the padded length is not
\* a multiple of 4 or the data characters cannot form whole bytes.  The
\* decoder discards characters outside the alphabet, so "!!" holds no data.
BinasciiError == "<binascii.Error>"

urlsafe_b64decode(seg, pad) ==
    IF seg = PayNonAlpha
    THEN ""
    ELSE IF SegLen(seg) % 4 = 1 \/ (SegLen(seg) + pad) % 4 /= 0
    THEN BinasciiError
    ELSE SegBytes(seg)

(***************************************************************************)
(* decode_jwt, get_token_expiry, is_token_expired                          *)
(***************************************************************************)
\* the payload segment, padded and decoded
decode_payload(payload, padding) ==
    urlsafe_b64decode(payload, IF padding /= 4 THEN padding ELSE 0)

\* json.loads(decoded) inside the try block
loads_or_none(decoded) ==
    IF decoded = BinasciiError THEN JNone
    ELSE IF json_loads(decoded) = JErr THEN JNone
    ELSE json_loads(decoded)

decode_jwt_verifying(token) ==
    IF token = None
    THEN JRaised
    ELSE IF Len(token) /= 3 \/ token[3] /= "sigA"
    THEN JNone
    ELSE loads_or_none(decode_payload(token[2], 4 - (SegLen(token[2]) % 4)))

\* returns whatever json.loads returns; None on the caught errors.  None has
\* no split(): the AttributeError is not among the caught ones.
decode_jwt(token) ==
    IF token = None
    THEN JRaised
    ELSE IF Len(token) /= 3
    THEN JNone
    ELSE loads_or_none(decode_payload(token[2], 4 - (SegLen(token[2]) % 4)))

\* The outcome of a call that returns a time or None, or raises.
\*   exc: "" when the call returned, else the exception raised
\*   some: the return value is not None;  val: the value when some
TRet(v) == [exc |-> "", some |-> TRUE, val |-> v]
TRetNone == [exc |-> "", some |-> FALSE, val |-> 0]
TRaise(e) == [exc |-> e, some |-> FALSE, val |-> 0]

\* get_token_expiry once decode_jwt has given payload.  datetime.fromtimestamp
\* holds years 1 to 9999 and raises ValueError on a timestamp outside them.
expiry_of(payload) ==
    IF payload.t = "None" THEN TRetNone
    ELSE IF payload.t /= "dict" THEN TRaise("AttributeError")
    ELSE IF payload.exp_t \in {"absent", "null"} THEN TRetNone
    ELSE IF payload.exp_t = "str" THEN TRaise("TypeError")
    ELSE IF payload.exp_t \in {"below", "above"} THEN TRaise("ValueError")
    ELSE TRet(payload.exp)

get_token_expiry(jwt_token) == expiry_of(decode_jwt(jwt_token))

\* The outcome of a call that returns a bool, or raises.
BRet(b) == [exc |-> "", val |-> b]
BRaise(e) == [exc |-> e, val |-> FALSE]

\* buffer = -1 stands for the default argument None
DefaultBuffer == 0 - 1

\* datetime.now() >= (expiry - buffer), once get_token_expiry has given expiry
expired_at(expiry, buf, t) ==
    IF expiry.exc /= "" THEN BRaise(expiry.exc)
    ELSE IF ~expiry.some THEN BRet(FALSE)
    ELSE BRet(t >= expiry.val - buf)

is_token_expired(jwt_token, buffer, t) ==
    expired_at(get_token_expiry(jwt_token),
               IF buffer = DefaultBuffer THEN TOKEN_REFRESH_BUFFER ELSE buffer, t)

(***************************************************************************)
(* The tokens dict.  keys is the set of keys present; an absent key holds  *)
(* the value written beside it in NoDict.  uid stands for the fields the   *)
(* login response supplies and no later step reads (ua, uid, email,        *)
(* first_name, last_name).                                                 *)
(***************************************************************************)
NoDict ==
    [keys |-> {}, jwt_token |-> None, refresh_token |-> None, uid |-> "",
     last_refresh |-> 0]

\* a dict, or None
Some(d) == [some |-> TRUE, d |-> d]
PyNone == [some |-> FALSE, d |-> NoDict]

\* bool(x) of a dict-or-None
Truthy(x) == x.some /\ x.d.keys /= {}

\* dict.get(key) for the two str-valued keys the helper reads
Get(d, key) == IF key \in d.keys THEN d[key] ELSE None

(***************************************************************************)
(* The files, relative to the working directory:                           *)
(*   raiplay_tokens        TOKEN_FILE, the tokens dict as JSON             *)
(*   raiplay_config_cache  CONFIG_CACHE_FILE                               *)
(*   env                   ENV_FILE (.env), read by load_credentials       *)
(* json.dump / json.load of a dict of str, None and number values give     *)
(* back an equal dict, so a file holds the dict that was dumped.           *)
(***************************************************************************)
NoTokenFile == [exists |-> FALSE, data |-> NoDict]
NoCacheFile ==
    [exists |-> FALSE, kind |-> "dict", cached_at_t |-> "absent", cached_at |-> 0,
     config |-> "None"]

\* a cache file written by fetch_config at time t
CacheFile(t, config) ==
    [exists |-> TRUE, kind |-> "dict", cached_at_t |-> "iso", cached_at |-> t,
     config |-> config]

\* datetime.fromisoformat("2000-01-01") as Unix seconds
Year2000 == 946684800

(***************************************************************************)
(* HTTP.  One response: exc is a requests.RequestException raised by the   *)
(* call; otherwise status and the body.  json_t is what response.json()    *)
(* gives: "invalid" (it raises), "dict" or "list".  For an invalid body,   *)
(* text is response.text.strip().                                          *)
(***************************************************************************)
Resp(exc, status, json_t, ok, has_auth, auth, rt, text, config, raisso) ==
    [exc |-> exc, status |-> status, json_t |-> json_t, response_ok |-> ok,
     has_auth |-> has_auth, authorization |-> auth, refreshToken |-> rt,
     text |-> text, config |-> config, raisso |-> raisso]

RExc == Resp(TRUE, 0, "invalid", FALSE, FALSE, None, None, EmptyStr, "None", FALSE)
RStatus(st) == Resp(FALSE, st, "invalid", FALSE, FALSE, None, None, EmptyStr, "None", FALSE)
RText(text) == Resp(FALSE, 200, "invalid", FALSE, FALSE, None, None, text, "None", FALSE)
RJsonList == Resp(FALSE, 200, "list", FALSE, FALSE, None, None, EmptyStr, "cfgList", FALSE)
RJson(ok, has_auth, auth, rt, raisso) ==
    Resp(FALSE, 200, "dict", ok, has_auth, auth, rt, EmptyStr, "None", raisso)
RConfig(config) ==
    Resp(FALSE, 200, "dict", FALSE, FALSE, None, None, EmptyStr, config, FALSE)

(***************************************************************************)
(* fetch_config.  The result: exc ("" when it returned), ret (the config,  *)
(* "None" for None), the disk afterwards and the number of HTTP requests.  *)
(* requests' JSONDecodeError is a RequestException (requests >= 2.27), so  *)
(* an invalid body ends in the handler of the remote branch.               *)
(***************************************************************************)
CRes(exc, ret, d, http) == [exc |-> exc, ret |-> ret, disk |-> d, http |-> http]

\* the remote branch
fetch_remote(d, t, r) ==
    IF r.exc \/ r.status /= 200 \/ r.json_t = "invalid"
    THEN CRes("", "None", d, 1)
    ELSE CRes("", r.config,
              [d EXCEPT !.raiplay_config_cache = CacheFile(t, r.config)], 1)

fetch_config_inclusive(force_refresh, d, t, r) ==
    LET c == d.raiplay_config_cache
        cached_time == IF c.cached_at_t = "absent" THEN Year2000 ELSE c.cached_at
    IN  IF ~force_refresh /\ c.exists /\ c.kind = "list"
        THEN CRes("AttributeError", "None", d, 0)
        ELSE IF /\ ~force_refresh /\ c.exists /\ c.kind = "dict"
                /\ c.cached_at_t /= "badiso"
                /\ t - cached_time <= CONFIG_CACHE_DURATION
        THEN CRes("", c.config, d, 0)
        ELSE fetch_remote(d, t, r)

fetch_config(force_refresh, d, t, r) ==
    LET c == d.raiplay_config_cache
        cached_time == IF c.cached_at_t = "absent" THEN Year2000 ELSE c.cached_at
    IN  IF ~force_refresh /\ c.exists /\ c.kind = "list"
        THEN CRes("AttributeError", "None", d, 0)
        ELSE IF /\ ~force_refresh /\ c.exists /\ c.kind = "dict"
                /\ c.cached_at_t /= "badiso"
                /\ t - cached_time < CONFIG_CACHE_DURATION
        THEN CRes("", c.config, d, 0)
        ELSE fetch_remote(d, t, r)

\* get_domain_api_key(): ret is "key" when the key was found
domain_api_key_in(c) ==
    IF c.exc /= "" THEN c
    ELSE IF c.ret = "cfgFull" THEN CRes("", "key", c.disk, c.http)
    ELSE CRes("SystemExit", "None", c.disk, c.http)

get_domain_api_key(d, t, r) == domain_api_key_in(fetch_config(FALSE, d, t, r))

\* get_refresh_url(): ret is the URL
refresh_url_in(c) ==
    IF c.exc /= "" THEN c
    ELSE IF c.ret = "None" THEN CRes("", "DEFAULT_REFRESH_URL", c.disk, c.http)
    ELSE IF c.ret = "cfgList" THEN CRes("AttributeError", "None", c.disk, c.http)
    ELSE CRes("", "config url", c.disk, c.http)

get_refresh_url(d, t, r) == refresh_url_in(fetch_config(FALSE, d, t, r))

(***************************************************************************)
(* refresh_token(tokens).  The result:                                     *)
(*   kind   "dict" (returned the dict), "None", "raise" or "exit"          *)
(*   val    the dict returned                                              *)
(*   arg    the passed-in dict object as the call leaves it (the dict is   *)
(*          updated in place)                                              *)
(*   disk   the disk afterwards;  http: the number of HTTP requests        *)
(*   posted the POST to the refresh URL was sent                           *)
(* rc1 and rc2 answer the two fetch_config calls, rr the refresh POST.     *)
(***************************************************************************)
RRes(kind, val, arg, d, http, posted) ==
    [kind |-> kind, val |-> val, arg |-> arg, disk |-> d, http |-> http,
     posted |-> posted]

\* tokens["last_refresh"] = datetime.now().isoformat()
stamped(tokens, t) ==
    [tokens EXCEPT !.last_refresh = t, !.keys = @ \cup {"last_refresh"}]

\* return tokens: the dict passed in, updated in place
returned(tokens, d, http) == RRes("dict", tokens, tokens, d, http, TRUE)

\* the updates from a JSON body
updated(tokens, rr) ==
    [tokens EXCEPT !.jwt_token = IF rr.has_auth THEN rr.authorization ELSE @,
                   !.refresh_token = IF ~Falsy(rr.refreshToken)
                                     THEN rr.refreshToken ELSE @]

\* the handling of the response to the POST
refresh_response_stamp_first(tokens, t, d, http, rr) ==
    IF rr.exc THEN RRes("None", NoDict, stamped(tokens, t), d, http, TRUE)
    ELSE IF rr.status /= 200 THEN RRes("None", NoDict, stamped(tokens, t), d, http, TRUE)
    ELSE IF rr.json_t = "list" THEN RRes("raise", NoDict, stamped(tokens, t), d, http, TRUE)
    ELSE IF rr.json_t = "dict"
    THEN IF ~rr.response_ok /\ ~rr.has_auth
         THEN RRes("None", NoDict, stamped(tokens, t), d, http, TRUE)
         ELSE returned(stamped(updated(tokens, rr), t), d, http)
    ELSE IF Len(rr.text) - 1 = 2 /\ StartsWithEyJ(rr.text[1])
         THEN returned(stamped([tokens EXCEPT !.jwt_token = rr.text], t), d, http)
         ELSE RRes("None", NoDict, stamped(tokens, t), d, http, TRUE)

refresh_response(tokens, t, d, http, rr) ==
    IF rr.exc THEN RRes("None", NoDict, tokens, d, http, TRUE)
    ELSE IF rr.status /= 200 THEN RRes("None", NoDict, tokens, d, http, TRUE)
    ELSE IF rr.json_t = "list" THEN RRes("raise", NoDict, tokens, d, http, TRUE)
    ELSE IF rr.json_t = "dict"
    THEN IF ~rr.response_ok /\ ~rr.has_auth
         THEN RRes("None", NoDict, tokens, d, http, TRUE)
         ELSE returned(stamped(updated(tokens, rr), t), d, http)
    ELSE \* the body is not JSON: the JWT as plain text
         IF Len(rr.text) - 1 = 2 /\ StartsWithEyJ(rr.text[1])
         THEN returned(stamped([tokens EXCEPT !.jwt_token = rr.text], t), d, http)
         ELSE RRes("None", NoDict, tokens, d, http, TRUE)

\* from the domain API key on: k is get_domain_api_key's result
refresh_with_key(tokens, t, http, k, rr) ==
    IF k.exc /= ""
    THEN RRes(IF k.exc = "SystemExit" THEN "exit" ELSE "raise", NoDict, tokens,
              k.disk, http + k.http, FALSE)
    ELSE IF "jwt_token" \notin tokens.keys
    THEN \* KeyError while the request headers are built
         RRes("raise", NoDict, tokens, k.disk, http + k.http, FALSE)
    ELSE refresh_response(tokens, t, k.disk, http + k.http + 1, rr)

\* from the refresh URL on: u is get_refresh_url's result
refresh_with_url(tokens, t, u, rc2, rr) ==
    IF u.exc /= ""
    THEN RRes("raise", NoDict, tokens, u.disk, u.http, FALSE)
    ELSE refresh_with_key(tokens, t, u.http, get_domain_api_key(u.disk, t, rc2), rr)

refresh_token(tk, d, t, rc1, rc2, rr) ==
    IF ~Truthy(tk) \/ Falsy(Get(tk.d, "refresh_token"))
    THEN RRes("None", NoDict, tk.d, d, 0, FALSE)
    ELSE refresh_with_url(tk.d, t, get_refresh_url(d, t, rc1), rc2, rr)

(***************************************************************************)
(* save_tokens, load_tokens                                                *)
(***************************************************************************)
save_tokens_to_env(d, tokens) ==
    [d EXCEPT !.env = [exists |-> TRUE, creds |-> FALSE]]

save_tokens(d, tokens) ==
    [d EXCEPT !.raiplay_tokens = [exists |-> TRUE, data |-> tokens]]

load_tokens(d) ==
    IF ~d.raiplay_tokens.exists THEN PyNone ELSE Some(d.raiplay_tokens.data)

(***************************************************************************)
(* ensure_valid_token(tokens, auto_refresh).  The result:                  *)
(*   kind    "dict", "None", "raise" or "exit";  val: the dict returned    *)
(*   disk, http   as for refresh_token                                     *)
(*   expired what is_token_expired said of the jwt_token it examined       *)
(*   old_jwt the jwt_token it examined                                     *)
(*   saved   save_tokens ran;  posted: the refresh POST was sent           *)
(***************************************************************************)
ERes(kind, val, d, http, expired, old_jwt, saved, posted) ==
    [kind |-> kind, val |-> val, disk |-> d, http |-> http, expired |-> expired,
     old_jwt |-> old_jwt, saved |-> saved, posted |-> posted]

\* if refreshed: save_tokens(refreshed, quiet=True); return refreshed
after_refresh(refreshed, jwt_token) ==
    IF refreshed.kind \in {"raise", "exit"}
    THEN ERes(refreshed.kind, NoDict, refreshed.disk, refreshed.http, TRUE,
              jwt_token, FALSE, refreshed.posted)
    ELSE IF refreshed.kind = "dict" /\ refreshed.val.keys /= {}
    THEN ERes("dict", refreshed.val, save_tokens(refreshed.disk, refreshed.val),
              refreshed.http, TRUE, jwt_token, TRUE, refreshed.posted)
    ELSE ERes("None", NoDict, refreshed.disk, refreshed.http, TRUE, jwt_token,
              FALSE, refreshed.posted)

\* from the expiry check on: tk is the dict passed or loaded
check_expiry(tk, jwt_token, expired, auto_refresh, d, t, rc1, rc2, rr) ==
    IF expired.exc /= ""
    THEN ERes("raise", NoDict, d, 0, FALSE, jwt_token, FALSE, FALSE)
    ELSE IF ~expired.val THEN ERes("dict", tk.d, d, 0, FALSE, jwt_token, FALSE, FALSE)
    ELSE IF ~auto_refresh
    THEN ERes("None", NoDict, d, 0, TRUE, jwt_token, FALSE, FALSE)
    ELSE after_refresh(refresh_token(tk, d, t, rc1, rc2, rr), jwt_token)

ensure_loaded(tk, auto_refresh, d, t, rc1, rc2, rr) ==
    IF ~tk.some THEN ERes("None", NoDict, d, 0, FALSE, None, FALSE, FALSE)
    ELSE IF Falsy(Get(tk.d, "jwt_token"))
    THEN ERes("None", NoDict, d, 0, FALSE, None, FALSE, FALSE)
    ELSE check_expiry(tk, Get(tk.d, "jwt_token"),
                      is_token_expired(Get(tk.d, "jwt_token"), DefaultBuffer, t),
                      auto_refresh, d, t, rc1, rc2, rr)

ensure_valid_token(arg, auto_refresh, d, t, rc1, rc2, rr) ==
    ensure_loaded(IF ~arg.some THEN load_tokens(d) ELSE arg, auto_refresh, d, t,
                  rc1, rc2, rr)

(***************************************************************************)
(* login(username, password): rc answers fetch_config, rl the login POST.  *)
(* The result is shaped as refresh_token's.                                *)
(***************************************************************************)
login_tokens(rl) ==
    [keys |-> {"jwt_token", "refresh_token", "uid"},
     jwt_token |-> IF rl.has_auth THEN rl.authorization ELSE None,
     refresh_token |-> rl.refreshToken, uid |-> "uid", last_refresh |-> 0]

\* from the domain API key on
login_with_key(k, rl) ==
    IF k.exc /= ""
    THEN RRes(IF k.exc = "SystemExit" THEN "exit" ELSE "raise", NoDict, NoDict,
              k.disk, k.http, FALSE)
    ELSE IF rl.exc THEN RRes("raise", NoDict, NoDict, k.disk, k.http + 1, TRUE)
    ELSE IF rl.status /= 200 THEN RRes("None", NoDict, NoDict, k.disk, k.http + 1, TRUE)
    ELSE IF rl.json_t /= "dict"
    THEN RRes("raise", NoDict, NoDict, k.disk, k.http + 1, TRUE)
    ELSE IF ~rl.response_ok THEN RRes("None", NoDict, NoDict, k.disk, k.http + 1, TRUE)
    ELSE IF ~rl.raisso THEN RRes("raise", NoDict, NoDict, k.disk, k.http + 1, TRUE)
    ELSE RRes("dict", login_tokens(rl), login_tokens(rl), k.disk, k.http + 1, TRUE)

login(d, t, rc, rl) == login_with_key(get_domain_api_key(d, t, rc), rl)

(***************************************************************************)
(* The schedule CLI's requests.  The result is "data", "None" or "raise".  *)
(***************************************************************************)
\* troverai/api.py and troverai/cli.py fetch_schedule
fetch_schedule(r) ==
    IF r.exc THEN "raise"
    ELSE IF r.status /= 200 THEN "None"
    ELSE IF r.json_t = "invalid" THEN "None"
    ELSE "data"

\* troverai/api.py and troverai/cli.py fetch_channels
fetch_channels(r) ==
    IF r.exc THEN "raise"
    ELSE IF r.status /= 200 THEN "None"
    ELSE IF r.json_t = "invalid" THEN "raise"
    ELSE "data"

\* troverai/cli.py fetch_now_on_air
fetch_now_on_air(r) ==
    IF r.exc THEN "raise"
    ELSE IF r.status /= 200 THEN "None"
    ELSE IF r.json_t = "invalid" THEN "raise"
    ELSE "data"

\* troverai/cli.py get_session: "session", or "exit" without a token file, or
\* "raise" (KeyError) when the file holds no jwt_token
get_session(d) ==
    IF ~d.raiplay_tokens.exists THEN "exit"
    ELSE IF "jwt_token" \notin d.raiplay_tokens.data.keys THEN "raise"
    ELSE "session"

(***************************************************************************)
(* jsonfix.py.  A text is the sequence of its characters, each a string of *)
(* length one (BOM stands for U+FEFF).  The documents are written with the *)
(* punctuation of JSON, the digit 1, the letters a and N, the underscore,  *)
(* both quotes, the backslash, / and *, the tab, the newline, the carriage *)
(* return, the space and the BOM; the fixes add the letter t (in the \t    *)
(* that replaces a tab) and the word null.  The values of the documents    *)
(* are arrays, objects, strings, the numbers 1, 11, ... and NaN.           *)
(***************************************************************************)
TAB == "\t"
NL == "\n"
CR == "\r"
SP == " "
QUOTE == "\""
APOS == "'"
BSLASH == "\\"
BOM == "BOM"

\* the letters of the texts and of the words Infinity, NaN, undefined, null
Letters == {"a", "N", "I", "n", "f", "i", "t", "y", "u", "d", "e", "l"}

\* the regular expression classes \w and \s on these characters
IsWord(c) == c \in Letters \cup {"1", "_"}
IsSpace(c) == c \in {SP, TAB, NL, CR}

\* the character at index i (1-based), EOF outside the text
At(s, i) == IF i >= 1 /\ i <= Len(s) THEN s[i] ELSE "EOF"

\* json.decoder.WHITESPACE: [ \t\n\r]*
JsonWs == {SP, TAB, NL, CR}

\* the first index from i on that holds no JSON whitespace
RECURSIVE SkipWs(_, _)
SkipWs(s, i) == IF At(s, i) \in JsonWs THEN SkipWs(s, i + 1) ELSE i

(***************************************************************************)
(* json.loads.  A parse is [ok, next, data]: next is the index after the   *)
(* value, data the value as the sequence of its tokens (the punctuation,   *)
(* "num" with its digits, "str" with its decoded characters, "null",       *)
(* "nan"); two texts with the same tokens have equal values.               *)
(***************************************************************************)
Tok(k, v) == [k |-> k, v |-> v]
NoParse == [ok |-> FALSE, next |-> 0, data |-> <<>>]
Parsed(next, data) == [ok |-> TRUE, next |-> next, data |-> data]

\* the digits of a number from index i on
RECURSIVE Digits(_, _)
Digits(s, i) == IF At(s, i) = "1" THEN <<"1">> \o Digits(s, i + 1) ELSE <<>>

\* py_scanstring, strict: the characters after the opening quote.  A control
\* character ends the scan with an error, a backslash starts an escape.
RECURSIVE ScanString(_, _, _)
ScanString(s, i, acc) ==
    IF At(s, i) = QUOTE THEN Parsed(i + 1, <<Tok("str", acc)>>)
    ELSE IF At(s, i) \in {"EOF", TAB, NL, CR} THEN NoParse
    ELSE IF At(s, i) /= BSLASH THEN ScanString(s, i + 1, Append(acc, s[i]))
    ELSE IF At(s, i + 1) \in {QUOTE, BSLASH, "/"}
    THEN ScanString(s, i + 2, Append(acc, s[i + 1]))
    ELSE IF At(s, i + 1) = "t" THEN ScanString(s, i + 2, Append(acc, TAB))
    ELSE NoParse

RECURSIVE ParseValue(_, _)
RECURSIVE ParseElements(_, _, _)
RECURSIVE ParseMembers(_, _, _)

\* after a value of the object: v is its parse, acc the tokens so far
AfterMember(s, v, acc) ==
    IF ~v.ok THEN NoParse
    ELSE IF At(s, SkipWs(s, v.next)) = "}"
    THEN Parsed(SkipWs(s, v.next) + 1, acc \o v.data \o <<Tok("}", <<>>)>>)
    ELSE IF At(s, SkipWs(s, v.next)) = ","
    THEN ParseMembers(s, SkipWs(s, SkipWs(s, v.next) + 1),
                      acc \o v.data \o <<Tok(",", <<>>)>>)
    ELSE NoParse

\* after a key of the object: k is its parse
AfterKey(s, k, acc) ==
    IF ~k.ok \/ At(s, SkipWs(s, k.next)) /= ":" THEN NoParse
    ELSE AfterMember(s, ParseValue(s, SkipWs(s, SkipWs(s, k.next) + 1)),
                     acc \o k.data \o <<Tok(":", <<>>)>>)

\* JSONObject: the next key of the object starts at index i
ParseMembers(s, i, acc) ==
    IF At(s, i) /= QUOTE THEN NoParse
    ELSE AfterKey(s, ScanString(s, i + 1, <<>>), acc)

\* after a value of the array: v is its parse, acc the tokens so far
AfterElement(s, v, acc) ==
    IF ~v.ok THEN NoParse
    ELSE IF At(s, SkipWs(s, v.next)) = "]"
    THEN Parsed(SkipWs(s, v.next) + 1, acc \o v.data \o <<Tok("]", <<>>)>>)
    ELSE IF At(s, SkipWs(s, v.next)) = ","
    THEN ParseElements(s, SkipWs(s, SkipWs(s, v.next) + 1),
                       acc \o v.data \o <<Tok(",", <<>>)>>)
    ELSE NoParse

\* JSONArray: the next value of the array starts at index i
ParseElements(s, i, acc) == AfterElement(s, ParseValue(s, i), acc)

\* scan_once at index i
ParseValue(s, i) ==
    IF At(s, i) = QUOTE THEN ScanString(s, i + 1, <<>>)
    ELSE IF At(s, i) = "1"
    THEN Parsed(i + Len(Digits(s, i)), <<Tok("num", Digits(s, i))>>)
    ELSE IF At(s, i) = "["
    THEN IF At(s, SkipWs(s, i + 1)) = "]"
         THEN Parsed(SkipWs(s, i + 1) + 1, <<Tok("[", <<>>), Tok("]", <<>>)>>)
         ELSE ParseElements(s, SkipWs(s, i + 1), <<Tok("[", <<>>)>>)
    ELSE IF At(s, i) = "{"
    THEN IF At(s, SkipWs(s, i + 1)) = "}"
         THEN Parsed(SkipWs(s, i + 1) + 1, <<Tok("{", <<>>), Tok("}", <<>>)>>)
         ELSE ParseMembers(s, SkipWs(s, i + 1), <<Tok("{", <<>>)>>)
    ELSE IF Len(s) >= i + 3 /\ SubSeq(s, i, i + 3) = <<"n", "u", "l", "l">>
    THEN Parsed(i + 4, <<Tok("null", <<>>)>>)
    ELSE IF Len(s) >= i + 2 /\ SubSeq(s, i, i + 2) = <<"N", "a", "N">>
    THEN Parsed(i + 3, <<Tok("nan", <<>>)>>)
    ELSE NoParse

\* JSONDecoder.decode: one value between whitespace, and nothing after it; a
\* text that starts with the BOM is refused
json_decode(s) ==
    IF At(s, 1) = BOM THEN NoParse
    ELSE IF ~ParseValue(s, SkipWs(s, 1)).ok THEN NoParse
    ELSE IF SkipWs(s, ParseValue(s, SkipWs(s, 1)).next) /= Len(s) + 1 THEN NoParse
    ELSE ParseValue(s, SkipWs(s, 1))

\* JSONFixer.validate: json.loads raised no JSONDecodeError
validate(content) == json_decode(content).ok

(***************************************************************************)
(* The fixes.  Each takes the text and the list fixes_applied and gives    *)
(* [content, fixes]: the text it returns and the list after its log call.  *)
(* An entry of the list is [fix, n]: the message and the count it holds.   *)
(***************************************************************************)
Fix(name, n) == [fix |-> name, n |-> n]
Fixed(content, fixes) == [content |-> content, fixes |-> fixes]

\* self.log(message)
log(fixes, name, n) == Append(fixes, Fix(name, n))

\* the result of a fix that logs when the text changed
LogIfChanged(original, content, fixes, name) ==
    Fixed(content, IF content /= original THEN log(fixes, name, 0) ELSE fixes)

\* the result of a fix that logs the count of its passes or matches
LogIfCounted(content, fixes, name, n) ==
    Fixed(content, IF n > 0 THEN log(fixes, name, n) ELSE fixes)

fix_bom(content, fixes) ==
    IF At(content, 1) = BOM
    THEN Fixed(Tail(content), log(fixes, "Removed BOM", 0))
    ELSE Fixed(content, fixes)

\* the index of the newline that ends a // comment, or the end of the text
RECURSIVE LineEnd(_, _)
LineEnd(s, i) == IF i <= Len(s) /\ s[i] /= NL THEN LineEnd(s, i + 1) ELSE i

\* the index after a block comment whose body starts at index i
RECURSIVE BlockEnd(_, _)
BlockEnd(s, i) ==
    IF i + 1 <= Len(s) /\ ~(s[i] = "*" /\ s[i + 1] = "/")
    THEN BlockEnd(s, i + 1) ELSE i + 2

\* the loop of fix_comments at index i (1-based)
RECURSIVE StripComments(_, _, _, _)
StripComments(s, i, in_string, escape_next) ==
    IF i > Len(s) THEN <<>>
    ELSE IF escape_next THEN <<s[i]>> \o StripComments(s, i + 1, in_string, FALSE)
    ELSE IF s[i] = BSLASH /\ in_string
    THEN <<s[i]>> \o StripComments(s, i + 1, in_string, TRUE)
    ELSE IF s[i] = QUOTE
    THEN <<s[i]>> \o StripComments(s, i + 1, ~in_string, FALSE)
    ELSE IF ~in_string /\ s[i] = "/" /\ i + 1 <= Len(s) /\ s[i + 1] = "/"
    THEN StripComments(s, LineEnd(s, i), in_string, FALSE)
    ELSE IF ~in_string /\ s[i] = "/" /\ i + 1 <= Len(s) /\ s[i + 1] = "*"
    THEN StripComments(s, BlockEnd(s, i + 2), in_string, FALSE)
    ELSE <<s[i]>> \o StripComments(s, i + 1, in_string, FALSE)

fix_comments(content, fixes) ==
    LogIfChanged(content, StripComments(content, 1, FALSE, FALSE), fixes,
                 "Removed JavaScript-style comments")

\* str.replace of the tab by \t and of the carriage return by nothing
RECURSIVE ReplaceControl(_)
ReplaceControl(s) ==
    IF s = <<>> THEN <<>>
    ELSE IF Head(s) = TAB THEN <<BSLASH, "t">> \o ReplaceControl(Tail(s))
    ELSE IF Head(s) = CR THEN ReplaceControl(Tail(s))
    ELSE <<Head(s)>> \o ReplaceControl(Tail(s))

fix_control_characters(content, fixes) ==
    LogIfChanged(content, ReplaceControl(content), fixes, "Removed control characters")

\* re.sub(r'\bword\b', 'null', s) from index i on
RECURSIVE ReplaceWord(_, _, _)
ReplaceWord(s, i, word) ==
    IF i > Len(s) THEN <<>>
    ELSE IF /\ i + Len(word) - 1 <= Len(s)
            /\ SubSeq(s, i, i + Len(word) - 1) = word
            /\ ~IsWord(At(s, i - 1))
            /\ ~IsWord(At(s, i + Len(word)))
    THEN <<"n", "u", "l", "l">> \o ReplaceWord(s, i + Len(word), word)
    ELSE <<s[i]>> \o ReplaceWord(s, i + 1, word)

fix_infinity_nan(content, fixes) ==
    LogIfChanged(content,
        ReplaceWord(ReplaceWord(ReplaceWord(content, 1,
            <<"I", "n", "f", "i", "n", "i", "t", "y">>), 1,
            <<"N", "a", "N">>), 1,
            <<"u", "n", "d", "e", "f", "i", "n", "e", "d">>),
        fixes, "Replaced Infinity/NaN/undefined with null")

\* the loop of fix_single_quotes at index i
RECURSIVE ConvertQuotes(_, _, _, _, _)
ConvertQuotes(s, i, in_double_string, in_single_string, escape_next) ==
    IF i > Len(s) THEN <<>>
    ELSE IF escape_next
    THEN <<s[i]>> \o ConvertQuotes(s, i + 1, in_double_string, in_single_string, FALSE)
    ELSE IF s[i] = BSLASH
    THEN <<s[i]>> \o ConvertQuotes(s, i + 1, in_double_string, in_single_string, TRUE)
    ELSE IF s[i] = QUOTE /\ ~in_single_string
    THEN <<s[i]>> \o ConvertQuotes(s, i + 1, ~in_double_string, in_single_string, FALSE)
    ELSE IF s[i] = APOS /\ ~in_double_string
    THEN <<QUOTE>> \o ConvertQuotes(s, i + 1, in_double_string, ~in_single_string, FALSE)
    ELSE <<s[i]>> \o ConvertQuotes(s, i + 1, in_double_string, in_single_string, FALSE)

fix_single_quotes(content, fixes) ==
    LogIfChanged(content, ConvertQuotes(content, 1, FALSE, FALSE, FALSE), fixes,
                 "Converted single quotes to double quotes")

\* the first index from i on that holds no \s, no \w, no comma
RECURSIVE SkipSpace(_, _)
SkipSpace(s, i) == IF IsSpace(At(s, i)) THEN SkipSpace(s, i + 1) ELSE i
RECURSIVE SkipWord(_, _)
SkipWord(s, i) == IF IsWord(At(s, i)) THEN SkipWord(s, i + 1) ELSE i
RECURSIVE SkipCommas(_, _)
SkipCommas(s, i) == IF At(s, i) = "," THEN SkipCommas(s, i + 1) ELSE i

\* ([{,]\s*)([a-zA-Z_][a-zA-Z0-9_]*)(\s*:) matches at index i: the indexes of
\* the key, of the end of the key and of the colon
KeyStart(s, i) == SkipSpace(s, i + 1)
KeyEnd(s, i) == SkipWord(s, KeyStart(s, i))
KeyColon(s, i) == SkipSpace(s, KeyEnd(s, i))
KeyMatch(s, i) ==
    /\ At(s, i) \in {"{", ","}
    /\ At(s, KeyStart(s, i)) \in Letters \cup {"_"}
    /\ At(s, KeyColon(s, i)) = ":"

\* one re.sub of fix_unquoted_keys from index i on
RECURSIVE QuoteKeys(_, _)
QuoteKeys(s, i) ==
    IF i > Len(s) THEN <<>>
    ELSE IF KeyMatch(s, i)
    THEN SubSeq(s, i, KeyStart(s, i) - 1) \o <<QUOTE>>
         \o SubSeq(s, KeyStart(s, i), KeyEnd(s, i) - 1) \o <<QUOTE>>
         \o SubSeq(s, KeyEnd(s, i), KeyColon(s, i))
         \o QuoteKeys(s, KeyColon(s, i) + 1)
    ELSE <<s[i]>> \o QuoteKeys(s, i + 1)

\* for _ in range(5): at most n more passes, until nothing changes
RECURSIVE QuoteKeysLoop(_, _)
QuoteKeysLoop(s, n) ==
    IF n = 0 \/ QuoteKeys(s, 1) = s THEN s ELSE QuoteKeysLoop(QuoteKeys(s, 1), n - 1)

fix_unquoted_keys(content, fixes) ==
    LogIfChanged(content, QuoteKeysLoop(content, 5), fixes,
                 "Added quotes to unquoted keys")

\* ,(\s*,)+ matches at index i; the index of its last comma, from comma i
MultiMatch(s, i) == At(s, i) = "," /\ At(s, SkipSpace(s, i + 1)) = ","
RECURSIVE MultiLast(_, _)
MultiLast(s, i) ==
    IF At(s, SkipSpace(s, i + 1)) = "," THEN MultiLast(s, SkipSpace(s, i + 1)) ELSE i

\* one pass of fix_multiple_commas from index i on: the text, and the matches
RECURSIVE MultiSub(_, _)
MultiSub(s, i) ==
    IF i > Len(s) THEN <<>>
    ELSE IF MultiMatch(s, i) THEN <<",">> \o MultiSub(s, MultiLast(s, i) + 1)
    ELSE <<s[i]>> \o MultiSub(s, i + 1)
RECURSIVE MultiCount(_, _)
MultiCount(s, i) ==
    IF i > Len(s) THEN 0
    ELSE IF MultiMatch(s, i) THEN 1 + MultiCount(s, MultiLast(s, i) + 1)
    ELSE MultiCount(s, i + 1)

\* while True: until no match is left
RECURSIVE MultiLoop(_, _, _)
MultiLoop(s, count, fixes) ==
    IF MultiCount(s, 1) = 0
    THEN LogIfCounted(s, fixes, "Fixed sequence(s) of multiple commas", count)
    ELSE MultiLoop(MultiSub(s, 1), count + MultiCount(s, 1), fixes)

fix_multiple_commas(content, fixes) == MultiLoop(content, 0, fixes)

\* one re.sub of ([\[\{]\s*),+ by \1 from index i on
LeadMatch(s, i) == At(s, i) \in {"[", "{"} /\ At(s, SkipSpace(s, i + 1)) = ","
RECURSIVE LeadSub(_, _)
LeadSub(s, i) ==
    IF i > Len(s) THEN <<>>
    ELSE IF LeadMatch(s, i)
    THEN SubSeq(s, i, SkipSpace(s, i + 1) - 1)
         \o LeadSub(s, SkipCommas(s, SkipSpace(s, i + 1)))
    ELSE <<s[i]>> \o LeadSub(s, i + 1)

RECURSIVE LeadLoop(_, _, _)
LeadLoop(s, count, fixes) ==
    IF LeadSub(s, 1) = s
    THEN LogIfCounted(s, fixes, "Removed leading comma(s)", count)
    ELSE LeadLoop(LeadSub(s, 1), count + 1, fixes)

fix_leading_commas(content, fixes) == LeadLoop(content, 0, fixes)

\* one re.sub of ,(\s*[\]\}]) by \1 from index i on
TrailMatch(s, i) == At(s, i) = "," /\ At(s, SkipSpace(s, i + 1)) \in {"]", "}"}
RECURSIVE TrailSub(_, _)
TrailSub(s, i) ==
    IF i > Len(s) THEN <<>>
    ELSE IF TrailMatch(s, i)
    THEN SubSeq(s, i + 1, SkipSpace(s, i + 1)) \o TrailSub(s, SkipSpace(s, i + 1) + 1)
    ELSE <<s[i]>> \o TrailSub(s, i + 1)

RECURSIVE TrailLoop(_, _, _)
TrailLoop(s, count, fixes) ==
    IF TrailSub(s, 1) = s
    THEN LogIfCounted(s, fixes, "Removed trailing comma(s)", count)
    ELSE TrailLoop(TrailSub(s, 1), count + 1, fixes)

fix_trailing_commas(content, fixes) == TrailLoop(content, 0, fixes)

\* content = self.fix_x(content): the next fix on the result of the last
Then(r, name) ==
    CASE name = "comments" -> fix_comments(r.content, r.fixes)
      [] name = "control" -> fix_control_characters(r.content, r.fixes)
      [] name = "infinity" -> fix_infinity_nan(r.content, r.fixes)
      [] name = "quotes" -> fix_single_quotes(r.content, r.fixes)
      [] name = "keys" -> fix_unquoted_keys(r.content, r.fixes)
      [] name = "multiple" -> fix_multiple_commas(r.content, r.fixes)
      [] name = "leading" -> fix_leading_commas(r.content, r.fixes)
      [] name = "trailing" -> fix_trailing_commas(r.content, r.fixes)

\* fix_all: fixes_applied starts empty, then the nine fixes in their order
fix_all(content) ==
    Then(Then(Then(Then(Then(Then(Then(Then(fix_bom(content, <<>>),
        "comments"), "control"), "infinity"), "quotes"), "keys"),
        "multiple"), "leading"), "trailing")

\* the message of fix_and_validate: its text and the count it holds
Msg(text, n) == [text |-> text, n |-> n]
NoMsg == Msg("", 0)

\* the return value of fix_and_validate, with fixes_applied after the call
Returned(content, success, message, fixes) ==
    [content |-> content, success |-> success, message |-> message, fixes |-> fixes]

\* fix_and_validate after fix_all gave r
Revalidated(r) ==
    IF validate(r.content)
    THEN Returned(r.content, TRUE, Msg("JSON repaired successfully", Len(r.fixes)), r.fixes)
    ELSE Returned(r.content, FALSE, Msg("Could not fully repair JSON", 0), r.fixes)

\* fix_and_validate on a JSONFixer whose fixes_applied is fixes
fix_and_validate(content, fixes) ==
    IF validate(content)
    THEN Returned(content, TRUE, Msg("JSON is already valid", 0), fixes)
    ELSE Revalidated(fix_all(content))

(***************************************************************************)
(* The JSONFixer object: its fixes_applied, the number of calls made on    *)
(* it and its last call (the method, the argument, what it returned).      *)
(***************************************************************************)
MaxCalls == 2

FixerAfter(fixes, calls, op, input, content, success, message) ==
    [fixes_applied |-> fixes, calls |-> calls, op |-> op, input |-> input,
     content |-> content, success |-> success, message |-> message]

\* JSONFixer()
NewFixer == FixerAfter(<<>>, 0, "__init__", <<>>, <<>>, FALSE, NoMsg)

\* the documents given to the fixer
Docs == {
    <<"[", "]">>,
    <<"[", "1", "]">>,
    <<"[", "1", ",", "1", "]">>,
    <<"[", SP, "1", SP, ",", SP, "1", "1", SP, "]">>,
    <<"[", QUOTE, "a", QUOTE, "]">>,
    <<"{", QUOTE, "a", QUOTE, ":", "1", "}">>,
    <<"{", QUOTE, "a", QUOTE, ":", SP, "[", "1", ",", SP, "1", "]", "}">>,
    <<"{", "}">>,
    <<"[", QUOTE, "/", "/", QUOTE, "]">>,
    <<"[", QUOTE, "/", "*", "a", "*", "/", QUOTE, "]">>,
    <<"[", QUOTE, ",", ",", QUOTE, "]">>,
    <<"[", QUOTE, "a", ",", "]", QUOTE, "]">>,
    <<"[", "N", "a", "N", "]">>,
    <<QUOTE, "a", APOS, "a", QUOTE>>,
    <<"[", QUOTE, BSLASH, QUOTE, QUOTE, "]">>,
    <<"[", QUOTE, BSLASH, BSLASH, QUOTE, "]">>,
    <<"[", "1", "]", NL>>,
    <<TAB, "[", "1", "]">>,
    <<"[", QUOTE, "N", "a", "N", QUOTE, "]">>,
    <<"[", NL, TAB, "1", NL, "]">>,
    <<"[", QUOTE, BOM, QUOTE, "]">>,
    <<"[", "1", ",", "]">>,
    <<"[", "1", ",", ",", "1", "]">>,
    <<"[", "1", SP, ",", SP, ",", SP, "1", SP, ",", NL, "]">>,
    <<"{", QUOTE, "a", QUOTE, ":", "1", ",", "}">>,
    <<"{", QUOTE, "a", QUOTE, ":", "1", ",", ",", QUOTE, "a", QUOTE, ":", "1", "}">>,
    <<"[", TAB, "1", ",", "]">>,
    <<"{", NL, TAB, QUOTE, "a", QUOTE, ":", SP, "1", ",", NL, "}">>,
    <<"[", QUOTE, ",", ",", QUOTE, ",", "]">>,
    <<"[", QUOTE, "a", ",", "]", QUOTE, ",", "]">>,
    <<"[", "[", "1", ",", "]", ",", "]">>,
    <<"[", "1", ",", ",", ",", "1", "]">>,
    <<"[", "1", ",", "]", CR, NL>>,
    <<"[", QUOTE, "N", "a", "N", QUOTE, ",", "]">>,
    <<"[", "N", "a", "N", ",", "]">>,
    <<"[", "1", ",", NL, "]">>,
    <<"[", "1", ",", SP, "]">>,
    <<"[", "1", ",", ",", "]">>,
    <<"[", QUOTE, BSLASH, QUOTE, QUOTE, ",", "]">>,
    <<"[", QUOTE, "a", APOS, "a", QUOTE, ",", "]">>,
    <<"[", ",", "1", "]">>,
    <<"{", ",", QUOTE, "a", QUOTE, ":", "1", "}">>,
    <<"[", SP, ",", ",", "1", "]">>,
    <<"[", "1", "]", SP, "/", "/", SP, "a">>,
    <<"[", "1", "]", SP, "/", "/", SP, "a", NL>>,
    <<"/", "/", SP, "a", NL, "[", "1", "]">>,
    <<"[", "1", ",", SP, "/", "*", SP, "a", SP, "*", "/", SP, "1", "]">>,
    <<"/", "*", SP, "a", SP, "*", "/", "[", "1", "]">>,
    <<"[", "1", "]", SP, "/", "*", SP, "a">>,
    <<"[", QUOTE, "a", "/", "/", "a", QUOTE, "]", SP, "/", "/", SP, "a">>,
    <<"[", QUOTE, "/", "*", "a", "*", "/", QUOTE, "]", SP, "/", "*", SP, "a", SP, "*", "/">>,
    <<QUOTE, BSLASH, BSLASH, QUOTE, SP, "/", "/", SP, "a">>,
    <<"[", QUOTE, BSLASH, QUOTE, "/", "/", QUOTE, "]">>,
    <<"/", "*", "/", SP, "1", SP, "*", "/">>,
    <<"[", "1", "]", SP, "/", SP, "1">>,
    <<"[", APOS, "/", "/", APOS, "]">>,
    <<"{", APOS, "a", APOS, ":", SP, APOS, "a", "/", "/", "a", APOS, "}">>,
    <<"[", APOS, "/", "*", APOS, "]", SP, "[", "1", "]", SP, "/", "*", SP, "a", SP, "*", "/">>,
    <<"[", APOS, "a", QUOTE, "a", APOS, "]", SP, "/", "/", SP, "a">>,
    <<"[", APOS, "a", APOS, "]", SP, "/", "/", SP, "a">>,
    <<"[", "1", "]", SP, "/">>,
    <<"[", "1", "]", SP, "/", "*", SP, "a", SP, "*">>,
    <<"/", "/">>,
    <<"/", "*", "*", "/", "[", "1", "]">>,
    <<"[", "1", ",", "]", SP, "/", "/", SP, "a">>,
    <<"[", QUOTE, "/", "/", QUOTE, ",", "]", SP, "/", "/", SP, "a">>,
    <<"[", APOS, "a", APOS, "]">>,
    <<"{", APOS, "a", APOS, ":", SP, "1", "}">>,
    <<"[", APOS, "a", BSLASH, APOS, "a", APOS, "]">>,
    <<"[", APOS, "a", APOS, ",", "]">>,
    <<"{", "a", ":", SP, "1", "}">>,
    <<"{", QUOTE, "a", QUOTE, ":", "1", ",", SP, "a", "1", ":", SP, "1", "}">>,
    <<"{", "_", "a", ":", "1", "}">>,
    <<"{", "a", ":", "1", ",", "}">>,
    <<BOM, "[", "1", "]">>,
    <<BOM, "[", "1", ",", "]">>,
    <<"[", BOM, "]">>,
    <<"[", "N", "a", "N", "a", "]">>,
    <<"[", "a", "N", "a", "N", "]">>,
    <<"[", SP, "N", "a", "N", SP, ",", "]">>,
    <<"[", QUOTE, TAB, QUOTE, "]">>,
    <<"[", "1", "]", CR, NL>>,
    <<"[", "1", TAB, ",", TAB, "]">>,
    <<"[", QUOTE, "a", TAB, "a", QUOTE, ",", "]">>,
    <<>>,
    <<"]">>,
    <<"[">>,
    <<QUOTE>>,
    <<"[", "1">>,
    <<"1", SP, "1">>,
    <<"[", "1", "]", "]">>,
    <<"{", QUOTE, "a", QUOTE, "}">>,
    <<"{", "1", ":", "1", "}">>,
    <<BSLASH>>}

(***************************************************************************)
(* Inputs: the tokens, the dicts and the responses of the server.          *)
(***************************************************************************)
TokSoon == <<HdrHS256, PayExpSoon, "sigA">>
TokLater == <<HdrHS256, PayExpLater, "sigA">>
TokArray == <<HdrHS256, PayArray, "sigA">>
TokOtherHdr == <<HdrOther, PayExpLater, "sigA">>
\* another token with the expiry of TokSoon
TokStale == <<HdrHS256, PayExpSoon, "sigB">>
Html == <<"<html>">>

Dict(keys, jt, rt) ==
    [keys |-> keys, jwt_token |-> jt, refresh_token |-> rt,
     uid |-> IF "uid" \in keys THEN "uid" ELSE "", last_refresh |-> 0]

AllKeys == {"jwt_token", "refresh_token", "uid"}

\* the token files the helper may find when it starts
InitTokenDicts ==
    {Dict(AllKeys, TokSoon, <<"r1">>),
     Dict({"jwt_token", "uid"}, TokSoon, None),
     Dict(AllKeys, TokArray, <<"r1">>),
     Dict({"refresh_token", "uid"}, None, <<"r1">>)}

\* the dicts a caller of get_auth_session may pass
ArgDicts == {Dict(AllKeys, TokSoon, <<"r2">>)}

InitCacheFiles ==
    {NoCacheFile,
     [NoCacheFile EXCEPT !.exists = TRUE, !.kind = "badjson"],
     [NoCacheFile EXCEPT !.exists = TRUE, !.kind = "list"],
     [NoCacheFile EXCEPT !.exists = TRUE, !.config = "cfgFull"],
     [NoCacheFile EXCEPT !.exists = TRUE, !.cached_at_t = "badiso", !.config = "cfgFull"],
     CacheFile(T0 - (CONFIG_CACHE_DURATION - 1), "cfgFull")}

ConfigResps ==
    {RExc, RStatus(500), RText(Html), RJsonList, RConfig("cfgFull"),
     RConfig("cfgNoKey")}

\* the answers to the fetch_config calls inside refresh_token and login
NestedConfigResps == {RExc, RConfig("cfgFull")}

RefreshResps ==
    {RExc, RStatus(401), RText(Html), RText(TokLater), RText(TokOtherHdr), RJsonList,
     RJson(FALSE, FALSE, None, None, FALSE),
     RJson(TRUE, FALSE, None, None, FALSE),
     RJson(TRUE, TRUE, TokLater, <<"r2">>, FALSE),
     RJson(FALSE, TRUE, TokLater, None, FALSE),
     RJson(TRUE, TRUE, TokStale, None, FALSE),
     RJson(TRUE, TRUE, None, None, FALSE)}

LoginResps ==
    {RExc, RStatus(401), RText(Html), RJsonList,
     RJson(FALSE, FALSE, None, None, FALSE),
     RJson(TRUE, TRUE, TokLater, <<"r1">>, TRUE),
     RJson(TRUE, TRUE, TokSoon, <<"r1">>, TRUE),
     RJson(TRUE, FALSE, None, None, TRUE),
     RJson(TRUE, TRUE, TokLater, <<"r1">>, FALSE)}

ScheduleResps == {RExc, RStatus(404), RText(Html), RJsonList, RConfig("None")}

\* the clock advances by one second or by a second less than a day
Steps == {1, CONFIG_CACHE_DURATION - 1}

Ticks(t) ==
    ((t - T0) % (CONFIG_CACHE_DURATION - 1)) + ((t - T0) \div (CONFIG_CACHE_DURATION - 1))

(***************************************************************************)
(* last: what the most recent operation did.                               *)
(*   op      the operation                                                 *)
(*   kind    what the function at its core returned: "dict", "None",       *)
(*           "config", "data", or "raise" / "exit" when it did not return  *)
(*   cmd     how the command ended: "ok", "exit" (sys.exit(1)) or "raise"  *)
(*   val     the dict returned;  arg0, arg: the dict passed to             *)
(*           refresh_token before and after the call                       *)
(*   http    the number of HTTP requests made;  posted: the refresh POST   *)
(*   expired, old_jwt, saved   as in ensure_valid_token's result           *)
(*   out     the token printed or put in the Authorization header          *)
(*   force, cfg   fetch_config's force_refresh and return value            *)
(*   req, resp   the operation's own request (the refresh POST, the login  *)
(*           POST, the config or the schedule GET) was sent, and what came *)
(*           back                                                          *)
(***************************************************************************)
Idle ==
    [op |-> "none", kind |-> "", cmd |-> "", val |-> NoDict, arg0 |-> NoDict,
     arg |-> NoDict, http |-> 0, posted |-> FALSE, expired |-> FALSE,
     old_jwt |-> None, saved |-> FALSE, out |-> None, force |-> FALSE,
     cfg |-> "None", req |-> FALSE, resp |-> RExc]

WithResp(l, sent, r) ==
    IF sent
    THEN [l EXCEPT !.req = TRUE, !.resp = r]
    ELSE l

NoJwt ==
    [op |-> "none", token |-> None, twin |-> None, buffer |-> 0,
     decoded |-> JNone, decoded2 |-> JNone, expiry |-> TRetNone,
     expiry2 |-> TRetNone, expired |-> BRet(FALSE), expired2 |-> BRet(FALSE),
     ens |-> Idle, ens2 |-> Idle]

\* the working directories the helper may start in
InitDisks ==
    {[raiplay_tokens |-> tf, raiplay_config_cache |-> cf,
      env |-> [exists |-> TRUE, creds |-> TRUE]] :
         tf \in {NoTokenFile, [exists |-> TRUE, data |-> Dict(AllKeys, TokSoon, <<"r1">>)]},
         cf \in InitCacheFiles}
    \cup
    {[raiplay_tokens |-> [exists |-> TRUE, data |-> d],
      raiplay_config_cache |-> CacheFile(T0 - (CONFIG_CACHE_DURATION - 1), "cfgFull"),
      env |-> [exists |-> e, creds |-> e]] :
         d \in InitTokenDicts, e \in BOOLEAN}

Init ==
    /\ now = T0
    /\ disk \in InitDisks
    /\ ops = 0
    /\ last = Idle
    /\ jwt = NoJwt
    /\ fixer = NewFixer

Advance(d) ==
    /\ Ticks(now) < MaxTicks
    /\ now' = now + d
    /\ last' = [Idle EXCEPT !.op = "tick"]
    /\ UNCHANGED <<disk, ops, jwt, fixer>>

\* a command runs: the clock stands still meanwhile
Ran == ops < MaxOps /\ ops' = ops + 1 /\ UNCHANGED <<now, jwt, fixer>>

\* No request is sent by ensure_valid_token, whatever the server would answer.
Quiet(arg, auto_refresh, d, t) ==
    ensure_valid_token(arg, auto_refresh, d, t, RExc, RExc, RExc).http = 0

\* Responses are drawn for the requests a command sends: when it sends none,
\* the one combination (RExc, RExc, RExc) stands for them all.
Drawn(quiet, rc1, rc2, rr) == quiet => (rc1 = RExc /\ rc2 = RExc /\ rr = RExc)

\* o.disk is the disk the command leaves, o.last what it did
Effect(o) == disk' = o.disk /\ last' = o.last

\* what the caller of ensure_valid_token records
Ensured(op, e, rr) ==
    WithResp([Idle EXCEPT !.op = op, !.kind = e.kind,
                          !.cmd = IF e.kind = "dict" THEN "ok"
                                  ELSE IF e.kind = "raise" THEN "raise" ELSE "exit",
                          !.val = e.val, !.http = e.http, !.expired = e.expired,
                          !.old_jwt = e.old_jwt, !.saved = e.saved,
                          !.posted = e.posted,
                          !.out = IF e.kind = "dict" THEN e.val.jwt_token ELSE None],
             e.posted, rr)

ensured(op, e, rr) == [disk |-> e.disk, last |-> Ensured(op, e, rr)]

\* cmd_token: --token [--export]
CmdToken(rc1, rc2, rr) ==
    /\ Ran
    /\ Drawn(Quiet(PyNone, TRUE, disk, now), rc1, rc2, rr)
    /\ Effect(ensured("cmd_token",
                      ensure_valid_token(PyNone, TRUE, disk, now, rc1, rc2, rr), rr))

\* get_auth_session(tokens, auto_refresh)
GetAuthSession(arg, auto_refresh, rc1, rc2, rr) ==
    /\ Ran
    /\ Drawn(Quiet(arg, auto_refresh, disk, now), rc1, rc2, rr)
    /\ Effect(ensured("get_auth_session",
                      ensure_valid_token(arg, auto_refresh, disk, now, rc1, rc2, rr),
                      rr))

\* what cmd_refresh and cmd_login record of refresh_token's or login's result r
Called(op, arg0, r, resp) ==
    WithResp([Idle EXCEPT !.op = op, !.kind = r.kind, !.val = r.val, !.arg0 = arg0,
                          !.arg = r.arg, !.http = r.http, !.posted = r.posted],
             r.posted, resp)

\* the tokens came back: print the expiry, then save_tokens
show_and_save(l, r, shown) ==
    IF shown.exc /= ""
    THEN [disk |-> r.disk, last |-> [l EXCEPT !.cmd = "raise"]]
    ELSE [disk |-> save_tokens(r.disk, r.val),
          last |-> [l EXCEPT !.cmd = "ok", !.saved = TRUE]]

\* if refreshed: ... else: sys.exit(1)
finish(l, r) ==
    IF r.kind = "dict" /\ r.val.keys /= {}
    THEN show_and_save(l, r, get_token_expiry(r.val.jwt_token))
    ELSE [disk |-> r.disk,
          last |-> [l EXCEPT !.cmd = IF r.kind = "raise" THEN "raise" ELSE "exit"]]

exited(op, d) ==
    [disk |-> d, last |-> [Idle EXCEPT !.op = op, !.kind = "exit", !.cmd = "exit"]]

cmd_refresh_with(tokens, r, rr) == finish(Called("cmd_refresh", tokens.d, r, rr), r)

cmd_refresh(tokens, d, t, rc1, rc2, rr) ==
    IF ~tokens.some
    THEN exited("cmd_refresh", d)
    ELSE cmd_refresh_with(tokens, refresh_token(tokens, d, t, rc1, rc2, rr), rr)

\* cmd_refresh: --refresh-token
CmdRefresh(rc1, rc2, rr) ==
    /\ Ran
    /\ Effect(cmd_refresh(load_tokens(disk), disk, now, rc1, rc2, rr))

cmd_login_with(r, rl) == finish(Called("cmd_login", NoDict, r, rl), r)

cmd_login(d, t, rc, rl) ==
    IF ~d.env.exists \/ ~d.env.creds
    THEN exited("cmd_login", d)
    ELSE cmd_login_with(login(d, t, rc, rl), rl)

\* cmd_login: --login
CmdLogin(rc, rl) ==
    /\ Ran
    /\ Effect(cmd_login(disk, now, rc, rl))

cmd_status(tokens, jwt_token) ==
    [Idle EXCEPT !.op = "cmd_status", !.kind = "None",
                 !.cmd = IF /\ tokens.some /\ ~Falsy(jwt_token)
                            /\ get_token_expiry(jwt_token).exc /= ""
                         THEN "raise" ELSE "ok"]

\* cmd_status: --status
CmdStatus ==
    /\ Ran
    /\ disk' = disk
    /\ last' = cmd_status(load_tokens(disk), Get(load_tokens(disk).d, "jwt_token"))

\* c is fetch_config's result
cmd_config(force_refresh, c, rc) ==
    [disk |-> c.disk,
     last |-> WithResp([Idle EXCEPT
                          !.op = "fetch_config", !.force = force_refresh,
                          !.cfg = c.ret, !.http = c.http,
                          !.kind = IF c.exc /= "" THEN "raise"
                                   ELSE IF c.ret = "None" THEN "None" ELSE "config",
                          !.cmd = IF c.exc /= "" \/ c.ret = "cfgList" THEN "raise"
                                  ELSE IF c.ret = "None" THEN "exit" ELSE "ok"],
                       c.http = 1, rc)]

\* cmd_config: --config [--refresh]
CmdConfig(force_refresh, rc) ==
    /\ Ran
    /\ Effect(cmd_config(force_refresh, fetch_config(force_refresh, disk, now, rc), rc))

\* troverai/api.py: the commands of the packaged CLI
ApiFetchSchedule(r) ==
    /\ last' = WithResp([Idle EXCEPT !.op = "api.fetch_schedule",
                                     !.kind = fetch_schedule(r), !.http = 1], TRUE, r)
    /\ Ran /\ disk' = disk

ApiFetchChannels(r) ==
    /\ last' = WithResp([Idle EXCEPT !.op = "api.fetch_channels",
                                     !.kind = fetch_channels(r), !.http = 1], TRUE, r)
    /\ Ran /\ disk' = disk

\* troverai/cli.py: get_session, then the request
CliFetch(op, result, r) ==
    /\ last' = IF get_session(disk) /= "session"
               THEN [Idle EXCEPT !.op = op, !.kind = get_session(disk)]
               ELSE WithResp([Idle EXCEPT !.op = op, !.kind = result, !.http = 1],
                             TRUE, r)
    /\ Ran /\ disk' = disk

CliFetchSchedule(r) == CliFetch("cli.fetch_schedule", fetch_schedule(r), r)

CliFetchNowOnAir(r) == CliFetch("cli.fetch_now_on_air", fetch_now_on_air(r), r)

CliFetchChannels(r) == CliFetch("cli.fetch_channels", fetch_channels(r), r)

Next ==
    \/ \E d \in Steps : Advance(d)
    \/ \E rc1, rc2 \in NestedConfigResps, rr \in RefreshResps : CmdToken(rc1, rc2, rr)
    \/ \E arg \in {PyNone} \cup {Some(d) : d \in ArgDicts}, auto_refresh \in BOOLEAN,
          rc1, rc2 \in NestedConfigResps, rr \in RefreshResps :
          GetAuthSession(arg, auto_refresh, rc1, rc2, rr)
    \/ \E rc1, rc2 \in NestedConfigResps, rr \in RefreshResps : CmdRefresh(rc1, rc2, rr)
    \/ \E rc \in NestedConfigResps, rl \in LoginResps : CmdLogin(rc, rl)
    \/ CmdStatus
    \/ \E force_refresh \in BOOLEAN, rc \in ConfigResps : CmdConfig(force_refresh, rc)
    \/ \E r \in ScheduleResps : ApiFetchSchedule(r)
    \/ \E r \in ScheduleResps : ApiFetchChannels(r)
    \/ \E r \in ScheduleResps : CliFetchSchedule(r)
    \/ \E r \in ScheduleResps : CliFetchNowOnAir(r)
    \/ \E r \in ScheduleResps : CliFetchChannels(r)

Spec == Init /\ [][Next]_vars

(***************************************************************************)
(* The JWT functions on their own: each call is made on a token and on a   *)
(* twin that has the same number of segments and the same payload segment. *)
(***************************************************************************)
Headers == {HdrHS256, HdrOther}
Signatures == {"sigA", "sigB"}

JwtTokens ==
    {<<h, p, g>> : h \in Headers, p \in PayloadSegs, g \in Signatures}
    \cup {EmptyStr, <<"garbage">>, <<HdrHS256, PayExpSoon>>,
          <<HdrHS256, PayExpSoon, "sigA", "sigB">>}

Twins(token) ==
    {u \in JwtTokens : Len(u) = Len(token) /\ (Len(u) >= 2 => u[2] = token[2])}

\* the buffer argument: the default, or a second under or over five minutes
Buffers == {DefaultBuffer, TOKEN_REFRESH_BUFFER - 1, TOKEN_REFRESH_BUFFER + 1}

JwtCall(token, twin, buffer) ==
    /\ jwt = NoJwt
    /\ jwt' = [NoJwt EXCEPT !.op = "call", !.token = token, !.twin = twin,
                            !.buffer = buffer,
                            !.decoded = decode_jwt(token),
                            !.decoded2 = decode_jwt(twin),
                            !.expiry = get_token_expiry(token),
                            !.expiry2 = get_token_expiry(twin),
                            !.expired = is_token_expired(token, buffer, now),
                            !.expired2 = is_token_expired(twin, buffer, now)]
    /\ UNCHANGED <<now, disk, ops, last, fixer>>

\* ensure_valid_token on a dict holding the token, and on one holding the
\* twin, in the same directory and with the same answers from the server
ensure_on(tok, auto_refresh, d, t, rc1, rc2, rr) ==
    Ensured("ensure_valid_token",
            ensure_valid_token(Some(Dict(AllKeys, tok, <<"r1">>)), auto_refresh, d, t,
                               rc1, rc2, rr), rr)

JwtEnsure(token, twin, auto_refresh, rc1, rc2, rr) ==
    /\ jwt = NoJwt
    /\ Drawn(Quiet(Some(Dict(AllKeys, token, <<"r1">>)), auto_refresh, disk, now),
             rc1, rc2, rr)
    /\ jwt' = [NoJwt EXCEPT
                 !.op = "ensure", !.token = token, !.twin = twin,
                 !.ens = ensure_on(token, auto_refresh, disk, now, rc1, rc2, rr),
                 !.ens2 = ensure_on(twin, auto_refresh, disk, now, rc1, rc2, rr)]
    /\ UNCHANGED <<now, disk, ops, last, fixer>>

JwtAdvance(d) ==
    /\ Ticks(now) < MaxTicks
    /\ now' = now + d
    /\ jwt' = NoJwt
    /\ UNCHANGED <<disk, ops, last, fixer>>

InitJwt ==
    /\ now = T0
    /\ disk \in {d \in InitDisks : ~d.raiplay_tokens.exists}
    /\ ops = 0
    /\ last = Idle
    /\ jwt = NoJwt
    /\ fixer = NewFixer

\* a call is made from the idle state, on any of the tokens
Callable == IF jwt = NoJwt THEN JwtTokens ELSE {}

NextJwt ==
    \/ \E d \in Steps : JwtAdvance(d)
    \/ \E token \in Callable, buffer \in Buffers : \E twin \in Twins(token) :
          JwtCall(token, twin, buffer)
    \/ \E token \in Callable, auto_refresh \in BOOLEAN : \E twin \in Twins(token) :
          \E rc1, rc2 \in NestedConfigResps, rr \in RefreshResps :
             JwtEnsure(token, twin, auto_refresh, rc1, rc2, rr)

SpecJwt == InitJwt /\ [][NextJwt]_vars

(***************************************************************************)
(* jsonfix.py: the calls on one JSONFixer.                                 *)
(***************************************************************************)
\* fixer.fix_and_validate(content); r is what it returns
FixAndValidateGave(content, r) ==
    fixer' = FixerAfter(r.fixes, fixer.calls + 1, "fix_and_validate", content,
                    r.content, r.success, r.message)

FixAndValidate(content) ==
    /\ fixer.calls < MaxCalls
    /\ FixAndValidateGave(content, fix_and_validate(content, fixer.fixes_applied))
    /\ UNCHANGED <<now, disk, ops, last, jwt>>

\* fixer.fix_comments(content); r is what it returns
FixCommentsGave(content, r) ==
    fixer' = FixerAfter(r.fixes, fixer.calls + 1, "fix_comments", content,
                    r.content, FALSE, NoMsg)

FixComments(content) ==
    /\ fixer.calls < MaxCalls
    /\ FixCommentsGave(content, fix_comments(content, fixer.fixes_applied))
    /\ UNCHANGED <<now, disk, ops, last, jwt>>

\* fixer = JSONFixer(): the next calls are made on a new object
Construct ==
    /\ fixer.calls > 0
    /\ fixer.op /= "__init__"
    /\ fixer' = [NewFixer EXCEPT !.calls = fixer.calls]
    /\ UNCHANGED <<now, disk, ops, last, jwt>>

NextFix ==
    \/ \E content \in Docs : FixAndValidate(content)
    \/ \E content \in Docs : FixComments(content)
    \/ Construct

\* jsonfix.py reads none of the files of the RaiPlay helper
InitFix ==
    /\ now = T0
    /\ disk \in {d \in InitDisks : ~d.raiplay_tokens.exists /\ ~d.raiplay_config_cache.exists}
    /\ ops = 0
    /\ last = Idle
    /\ jwt = NoJwt
    /\ fixer = NewFixer

SpecFix == InitFix /\ [][NextFix]_vars

(***************************************************************************)
(* Properties.                                                             *)
(***************************************************************************)
EnsureOps == {"cmd_token", "get_auth_session"}

\* C1: whenever ensure_valid_token returns a tokens dict, the jwt_token in it
\* is not expired at the time of return (is_token_expired is False), also when
\* the dict comes from a refresh whose response carried no "authorization".
C1_ReturnedTokenNotExpired ==
    (last.op \in EnsureOps /\ last.kind = "dict")
        => is_token_expired(last.val.jwt_token, DefaultBuffer, now) = BRet(FALSE)

\* C2: when the stored JWT is expired and the refresh succeeds,
\* ensure_valid_token has written the refreshed tokens to the token file when
\* it returns, the file holds the returned dict, and the token printed or put
\* in the Authorization header is the refreshed jwt_token, never the expired
\* one.
C2_RefreshedTokenSavedAndUsed ==
    (last.op \in EnsureOps /\ last.expired /\ last.kind = "dict")
        => /\ last.saved
           /\ disk.raiplay_tokens = [exists |-> TRUE, data |-> last.val]
           /\ last.out = last.val.jwt_token
           /\ last.out /= last.old_jwt

\* the buffer is_token_expired works with
BufferUsed(buffer) == IF buffer = DefaultBuffer THEN TOKEN_REFRESH_BUFFER ELSE buffer

\* now >= exp - buffer, for the numeric exp of payload
NotBefore(t, payload, buf) ==
    CASE payload.exp_t = "below" -> TRUE
      [] payload.exp_t = "above" -> FALSE
      [] OTHER -> t >= payload.exp - buf

\* C3: for a token whose payload is an object with a numeric exp,
\* is_token_expired(token, buffer) is True exactly when now >= exp - buffer,
\* the buffer defaulting to five minutes.
C3_ExpiredFromBufferBeforeExp ==
    (jwt.op = "call" /\ jwt.decoded.t = "dict"
                     /\ jwt.decoded.exp_t \in {"num", "below", "above"})
        => (jwt.expired = BRet(TRUE)
               <=> NotBefore(now, jwt.decoded, BufferUsed(jwt.buffer)))

\* C4: for every input string decode_jwt returns a dict or None: it never
\* raises and never returns a value that is neither.
C4_DecodeGivesDictOrNone ==
    jwt.op = "call" => jwt.decoded.t \in {"dict", "None"}

\* C5: get_token_expiry returns None, without raising, for every token that
\* cannot be decoded or whose payload has no exp (a payload that is valid JSON
\* but not an object included), and returns a datetime only when exp is
\* present.
C5_ExpiryNoneWithoutExp ==
    jwt.op = "call"
        => /\ (jwt.decoded.t /= "dict" \/ jwt.decoded.exp_t = "absent")
                  => jwt.expiry = TRetNone
           /\ jwt.expiry.some
                  => (jwt.decoded.t = "dict" /\ jwt.decoded.exp_t /= "absent")

\* equal, or each its own input token
SameModulo(a, b, ta, tb) == a = b \/ (a = ta /\ b = tb)

SameOutcome(a, b, ta, tb) ==
    /\ a.kind = b.kind /\ a.cmd = b.cmd /\ a.http = b.http
    /\ a.expired = b.expired /\ a.saved = b.saved
    /\ [a.val EXCEPT !.jwt_token = None] = [b.val EXCEPT !.jwt_token = None]
    /\ SameModulo(a.val.jwt_token, b.val.jwt_token, ta, tb)
    /\ SameModulo(a.out, b.out, ta, tb)

SamePayload(ta, tb) == Len(ta) = 3 /\ Len(tb) = 3 /\ ta[2] = tb[2]

\* C6: no cryptographic verification: for two three-segment tokens with the
\* same payload segment, decode_jwt, get_token_expiry, is_token_expired and
\* ensure_valid_token give the same result whatever the header and the
\* signature segments are.
C6_HeaderAndSignatureIgnored ==
    /\ (jwt.op = "call" /\ SamePayload(jwt.token, jwt.twin))
          => /\ jwt.decoded = jwt.decoded2
             /\ jwt.expiry = jwt.expiry2
             /\ jwt.expired = jwt.expired2
    /\ (jwt.op = "ensure" /\ SamePayload(jwt.token, jwt.twin))
          => SameOutcome(jwt.ens, jwt.ens2, jwt.token, jwt.twin)

C6_Witness ==
    /\ jwt.op = "ensure" /\ SamePayload(jwt.token, jwt.twin)
    /\ jwt.token[1] /= jwt.twin[1] /\ jwt.token[3] /= jwt.twin[3]
    /\ jwt.ens.expired /\ jwt.ens.kind = "dict" /\ jwt.ens2.kind = "dict"

\* refresh_token was called by cmd_refresh in the step, on the dict of the
\* token file
RefreshCalled == last'.op = "cmd_refresh" /\ disk.raiplay_tokens.exists

\* ensure_valid_token ended in None in the step
EnsureGaveNone == last'.op \in EnsureOps /\ last'.kind = "None"

ScheduleOps ==
    {"api.fetch_schedule", "api.fetch_channels", "cli.fetch_schedule",
     "cli.fetch_now_on_air", "cli.fetch_channels"}

\* C8 as stated: across every operation of the helper and of the schedule CLI
\* the only file created or modified is the token file; no other file is
\* written.
C8_OnlyTokenFileWritten ==
    [][/\ disk'.raiplay_config_cache = disk.raiplay_config_cache
       /\ disk'.env = disk.env]_vars

\* C8, amended: the only files created or modified are the token file and
\* the config cache file, which fetch_config rewrites with the time of the
\* fetch after a remote request; .env is never written, and the operations of
\* the schedule CLI write no file.
C8_OnlyTokenAndCacheFilesWritten ==
    [][/\ disk'.env = disk.env
       /\ disk'.raiplay_config_cache /= disk.raiplay_config_cache =>
             /\ last'.http >= 1
             /\ last'.op \notin ScheduleOps \cup {"cmd_status"}
             /\ disk'.raiplay_config_cache =
                   CacheFile(now, disk'.raiplay_config_cache.config)
       /\ disk'.raiplay_tokens /= disk.raiplay_tokens =>
             /\ last'.saved
             /\ disk'.raiplay_tokens = [exists |-> TRUE, data |-> last'.val]
       /\ last'.op \in ScheduleOps => disk' = disk
      ]_vars

C8_Witness ==
    /\ last.op = "cmd_refresh" /\ last.saved
    /\ disk.raiplay_tokens = [exists |-> TRUE, data |-> last.val]
    /\ disk.raiplay_config_cache = CacheFile(now, "cfgFull")
    /\ last.http = 3

\* the operations C9 names; cmd_login and cmd_refresh record login and
\* refresh_token
HttpOps ==
    {"api.fetch_schedule", "api.fetch_channels", "cli.fetch_now_on_air",
     "fetch_config", "cmd_login", "cmd_refresh"}

\* C9: every HTTP operation turns a non-200 status, and a 200 response whose
\* body is not valid JSON, into a handled error outcome, never an uncaught
\* exception.
C9_BadResponsesHandled ==
    (/\ last.op \in HttpOps /\ last.req /\ ~last.resp.exc
     /\ (last.resp.status /= 200 \/ last.resp.json_t = "invalid"))
        => last.kind /= "raise"

\* a readable cache file whose _cached_at is less than a day before t
FreshCache(c, t) ==
    /\ c.exists /\ c.kind = "dict" /\ c.cached_at_t = "iso"
    /\ t - c.cached_at < CONFIG_CACHE_DURATION

\* a readable cache file whose _cached_at is a day or more before t
OldCache(c, t) ==
    /\ c.exists /\ c.kind = "dict" /\ c.cached_at_t = "iso"
    /\ t - c.cached_at >= CONFIG_CACHE_DURATION

\* the request of last succeeded: status 200 and a JSON body
Fetched(l) == l.req /\ ~l.resp.exc /\ l.resp.status = 200 /\ l.resp.json_t /= "invalid"

\* C10: fetch_config(force_refresh=False) returns the cached config without
\* any HTTP request whenever a readable cache file has a _cached_at less than
\* one day before now; once the cache is a day old or older, or when
\* force_refresh is True, it always makes the remote request; after a
\* successful request the cache file holds the fetched config with a fresh
\* _cached_at.
C10_CacheUsedForOneDay ==
    [][last'.op = "fetch_config" =>
          /\ (~last'.force /\ FreshCache(disk.raiplay_config_cache, now)) =>
                /\ last'.http = 0 /\ ~last'.req
                /\ last'.kind /= "raise"
                /\ last'.cfg = disk.raiplay_config_cache.config
                /\ disk' = disk
          /\ (last'.force \/ OldCache(disk.raiplay_config_cache, now)) =>
                (last'.http = 1 /\ last'.req)
          /\ Fetched(last') =>
                /\ last'.cfg = last'.resp.config
                /\ disk'.raiplay_config_cache = CacheFile(now, last'.resp.config)
      ]_vars

C10_Witness ==
    /\ last.op = "fetch_config" /\ ~last.force
    /\ last.http = 0 /\ last.kind = "config"
    /\ disk.raiplay_config_cache.cached_at_t = "iso"
    /\ now - disk.raiplay_config_cache.cached_at = CONFIG_CACHE_DURATION - 1

\* the last call on the fixer was fix_and_validate
Validated == fixer.op = "fix_and_validate"

\* success is True exactly when the returned content parses
SuccessIffValid == fixer.success <=> validate(fixer.content)

\* valid input comes back unchanged, as already valid
ValidUnchanged ==
    validate(fixer.input) =>
        fixer.content = fixer.input /\ fixer.message.text = "JSON is already valid"

\* after a call on valid input fixes_applied is empty
ValidNoFixes == validate(fixer.input) => fixer.fixes_applied = <<>>

\* the count of the repair message is the length of fixes_applied
CountIsFixes ==
    fixer.message.text = "JSON repaired successfully" =>
        fixer.message.n = Len(fixer.fixes_applied)

\* C11: fix_and_validate returns success=True if and only if the returned
\* content parses as valid JSON; for input that is already valid JSON the
\* returned content is the input unchanged, no fix is applied and
\* fixes_applied is empty; on a successful repair the count in the message
\* equals the number of entries in fixes_applied.
C11_FixAndValidateSound ==
    Validated => SuccessIffValid /\ ValidUnchanged /\ ValidNoFixes /\ CountIsFixes

\* The document without its extra commas: outside the strings, a comma whose
\* next character after the whitespace is a comma, ] or } is left out.
RECURSIVE WithoutExtraCommas(_, _, _, _)
WithoutExtraCommas(s, i, in_string, escape_next) ==
    IF i > Len(s) THEN <<>>
    ELSE IF escape_next
    THEN <<s[i]>> \o WithoutExtraCommas(s, i + 1, in_string, FALSE)
    ELSE IF in_string /\ s[i] = BSLASH
    THEN <<s[i]>> \o WithoutExtraCommas(s, i + 1, in_string, TRUE)
    ELSE IF s[i] = QUOTE
    THEN <<s[i]>> \o WithoutExtraCommas(s, i + 1, ~in_string, FALSE)
    ELSE IF ~in_string /\ s[i] = "," /\ At(s, SkipWs(s, i + 1)) \in {",", "]", "}"}
    THEN WithoutExtraCommas(s, i + 1, in_string, FALSE)
    ELSE <<s[i]>> \o WithoutExtraCommas(s, i + 1, in_string, FALSE)

\* the last input of the fixer with the extra commas removed
Expected == WithoutExtraCommas(fixer.input, 1, FALSE, FALSE)

\* the input is valid JSON but for extra commas, of which it has some
OnlyExtraCommas == Expected /= fixer.input /\ validate(Expected)

\* C12: for every document that is valid JSON except for double/multiple
\* commas and/or trailing commas before ] or }, fix_and_validate reports
\* success and returns valid JSON that parses to the same data as the
\* document with those extra commas removed, whatever its whitespace (tab
\* indentation included) and the contents of its strings.
C12_ExtraCommasRepaired ==
    (Validated /\ OnlyExtraCommas) =>
        /\ fixer.success
        /\ validate(fixer.content)
        /\ json_decode(fixer.content).data = json_decode(Expected).data

\* The text without the comments that lie outside its strings.  A string is
\* opened by either quote ("..." or '...', the two forms the tool repairs)
\* and closed by the same quote; inside it a backslash escapes the next
\* character.  Outside the strings // runs to the end of the line and /*
\* to the next */ (or to the end of the text).  quote is the quote of the
\* string index i is in, "" outside the strings.
RECURSIVE Uncommented(_, _, _, _)
Uncommented(s, i, quote, escape_next) ==
    IF i > Len(s) THEN <<>>
    ELSE IF escape_next THEN <<s[i]>> \o Uncommented(s, i + 1, quote, FALSE)
    ELSE IF quote /= "" /\ s[i] = BSLASH
    THEN <<s[i]>> \o Uncommented(s, i + 1, quote, TRUE)
    ELSE IF quote /= "" /\ s[i] = quote
    THEN <<s[i]>> \o Uncommented(s, i + 1, "", FALSE)
    ELSE IF quote = "" /\ s[i] \in {QUOTE, APOS}
    THEN <<s[i]>> \o Uncommented(s, i + 1, s[i], FALSE)
    ELSE IF quote = "" /\ s[i] = "/" /\ At(s, i + 1) = "/"
    THEN Uncommented(s, LineEnd(s, i), "", FALSE)
    ELSE IF quote = "" /\ s[i] = "/" /\ At(s, i + 1) = "*"
    THEN Uncommented(s, BlockEnd(s, i + 2), "", FALSE)
    ELSE <<s[i]>> \o Uncommented(s, i + 1, quote, FALSE)

\* the last call on the fixer was fix_comments
Stripped == fixer.op = "fix_comments"

\* C13: fix_comments removes every // line comment and /* */ block comment
\* that lies outside a string and never removes a // or /* sequence that
\* lies inside a string; the content of every string literal in the input is
\* preserved character for character.  That is: what it returns is the
\* input without the comments outside its strings, and nothing else is
\* removed.
C13_OnlyCommentsRemoved ==
    Stripped => fixer.content = Uncommented(fixer.input, 1, "", FALSE)

====
